---- MODULE Spec2Model ----
(***************************************************************************)
(* Model of my_custom_player.py: the UCT Monte Carlo Tree Search agent     *)
(* (UTCNode, CustomPlayer.get_action / MCTS_search / tree_policy /         *)
(* best_child / expand / default_policy / backprop) and the alternative    *)
(* alpha-beta searcher (alpha_beta_search / min_value / max_value /        *)
(* score).                                                                 *)
(*                                                                         *)
(* The game state (the isolation library) is not part of the file; it is   *)
(* modelled as Isolation on a one-row board of Size cells whose piece      *)
(* moves by the offsets of ActionList.  A state is a record                *)
(* [board, ply_count, locs]: the open cells, the plies played and the two  *)
(* players' cells (None before a player has been placed).                  *)
(***************************************************************************)
EXTENDS Integers, Sequences, FiniteSets, TLC

\* ------------------------------------------------------------------ bounds
\* number of cells of the board
Size == 6
\* most iterations of the search loop before the deadline is taken as passed
MaxIter == 5
\* largest depth limit given to alpha_beta_search
DepthLimit == 3

\* ------------------------------------------------------------- game state
None == 0
Inf == 1000

Cells == 1..Size
ActionList == <<1, 2, -1, -2>>

RECURSIVE SetToSeq(_)
SetToSeq(S) ==
    IF S = {} THEN <<>>
    ELSE LET m == CHOOSE x \in S : \A y \in S : x <= y
         IN <<m>> \o SetToSeq(S \ {m})

SeqToSet(s) == {s[i] : i \in 1..Len(s)}

InitialState == [board |-> Cells, ply_count |-> 0, locs |-> <<None, None>>]

\* state.player(): 0 or 1
Player(s) == s.ply_count % 2

\* state.liberties(loc): the open cells reachable from loc
Liberties(s, loc) ==
    IF loc = None THEN s.board
    ELSE {loc + ActionList[i] : i \in 1..Len(ActionList)} \cap s.board

\* state._has_liberties(player_id)
HasLiberties(s, player_id) == Liberties(s, s.locs[player_id + 1]) # {}

\* state.actions(): the ordered legal actions of the player to move
Actions(s) ==
    LET loc == s.locs[Player(s) + 1]
        IsOpen(a) == (loc + a) \in s.board
    IN IF loc = None THEN SetToSeq(s.board)
       ELSE SelectSeq(ActionList, IsOpen)

\* state.result(action)
Result(s, action) ==
    LET p == Player(s)
        player_loc == action + s.locs[p + 1]
    IN [board |-> s.board \ {player_loc},
        ply_count |-> s.ply_count + 1,
        locs |-> [s.locs EXCEPT ![p + 1] = player_loc]]

\* state.terminal_test(): either player has no move left
TerminalTest(s) == ~(HasLiberties(s, 0) /\ HasLiberties(s, 1))

\* state.utility(player_id)
Utility(s, player_id) ==
    IF ~TerminalTest(s) THEN 0
    ELSE LET player_id_is_active == (player_id = Player(s))
             active_has_liberties == HasLiberties(s, Player(s))
         IN IF active_has_liberties = player_id_is_active THEN Inf ELSE -Inf

Successors(s) == {Result(s, Actions(s)[i]) : i \in 1..Len(Actions(s))}

\* the states of a game played from the empty board (play stops at a
\* terminal state)
RECURSIVE Closure(_, _)
Closure(frontier, seen) ==
    IF frontier = {} THEN seen
    ELSE LET next == UNION {Successors(s) :
                              s \in {f \in frontier : ~TerminalTest(f)}}
         IN Closure(next \ seen, seen \cup next)

GameStates == Closure({InitialState}, {InitialState})

\* ---------------------------------------------------------------- UTCNode
\* UTCNode.__init__ seeding a node with no visit
UTCNodeUnvisited(s, parent) ==
    [visits |-> 0, reward |-> 0, state |-> s, children |-> <<>>,
     children_actions |-> <<>>, parent |-> parent]

\* UTCNode.__init__
UTCNode(s, parent) ==
    [visits |-> 1, reward |-> 0, state |-> s, children |-> <<>>,
     children_actions |-> <<>>, parent |-> parent]

\* UTCNode.add_child: the tree is the sequence of its nodes, a node is
\* named by its index and the root is node 1
AddChild(ns, n, s, action) ==
    LET child == Len(ns) + 1
    IN Append([ns EXCEPT ![n].children = Append(@, child),
                         ![n].children_actions = Append(@, action)],
              UTCNode(s, n))

\* UTCNode.is_expanded
IsExpanded(node) == Len(node.children_actions) = Len(Actions(node.state))


\* ------------------------------------------------------------------ state
VARIABLES
    state,        \* the state handed to get_action
    pc,           \* where the call stands
    queue,        \* self.queue: the actions published so far
    nodes,        \* the search tree of MCTS_search, <<>> before it is built
    leaf_node,    \* leaf_node of the running iteration (None outside one)
    reward,       \* reward of the running iteration (0 outside one)
    iters,        \* completed iterations of the search loop
    exception,    \* the exception that ended the call, "none" otherwise
    sim_end,      \* the terminal state default_policy stopped in
    passes,       \* per node, the iterations whose descent went through it
    scored,       \* the nodes whose children best_child scored last
    depth,        \* the depth limit handed to alpha_beta_search
    best_move     \* the move alpha_beta_search returned (None before)

vars == <<state, pc, queue, nodes, leaf_node, reward, iters, exception,
          sim_end, passes, scored, depth, best_move>>

\* ------------------------------------------------------------ UCT scoring
\* scores are kept in units of 1/Scale; CFactor is sqrt(2) in these units
Scale == 10000
CFactor == 14142

\* math.log(n) in millionths, n = 1..12
LnMicro == <<0, 693147, 1098612, 1386294, 1609437, 1791759, 1945910,
             2079441, 2197224, 2302585, 2397895, 2484906>>

RECURSIVE SqrtSearch(_, _, _)
SqrtSearch(x, lo, hi) ==
    IF lo = hi THEN lo
    ELSE LET mid == (lo + hi + 1) \div 2
         IN IF mid * mid <= x THEN SqrtSearch(x, mid, hi)
            ELSE SqrtSearch(x, lo, mid - 1)

\* math.sqrt on non-negative integers, rounded down
ISqrt(x) == SqrtSearch(x, 0, 20000)

\* CustomPlayer.exploitation: node.reward / node.visits
Exploitation(ns, n) == (ns[n].reward * Scale) \div ns[n].visits

\* CustomPlayer.exploration: sqrt(log(node.parent.visits) / node.visits)
Exploration(ns, n) ==
    ISqrt((LnMicro[ns[ns[n].parent].visits] * 100) \div ns[n].visits)

\* the key of best_child: exploitation + c_factor * exploration
UCTScore(ns, n) ==
    Exploitation(ns, n) + (CFactor * Exploration(ns, n)) \div Scale

\* CustomPlayer.best_child: max() keeps the first child of maximal score
BestChild(ns, n) ==
    LET cs == ns[n].children
        i == CHOOSE i \in 1..Len(cs) :
                /\ \A j \in 1..Len(cs) : UCTScore(ns, cs[j]) <= UCTScore(ns, cs[i])
                /\ \A j \in 1..(i - 1) : UCTScore(ns, cs[j]) < UCTScore(ns, cs[i])
    IN cs[i]

\* list.index: the first position of x in s
Index(s, x) == CHOOSE i \in 1..Len(s) : s[i] = x /\ \A j \in 1..(i - 1) : s[j] # x

\* ------------------------------------------------------------ tree policy
\* the loop of tree_policy: the node it stops at, which is terminal (and
\* returned) or not fully expanded (and expanded)
RECURSIVE Descend(_, _)
Descend(ns, n) ==
    IF TerminalTest(ns[n].state) THEN n
    ELSE IF ~IsExpanded(ns[n]) THEN n
    ELSE Descend(ns, BestChild(ns, n))

\* the nodes the loop of tree_policy went through, in order
RECURSIVE DescentPath(_, _)
DescentPath(ns, n) ==
    IF TerminalTest(ns[n].state) THEN <<n>>
    ELSE IF ~IsExpanded(ns[n]) THEN <<n>>
    ELSE <<n>> \o DescentPath(ns, BestChild(ns, n))

\* expand choosing among all moves, legal in the node's state or not
UntriedAnyMove(node) ==
    {a \in SeqToSet(ActionList) : a \notin SeqToSet(node.children_actions)}

\* expand choosing among all legal actions, explored or not
UntriedOrTried(node) == SeqToSet(Actions(node.state))

\* the untried actions expand chooses from
Untried(node) ==
    {a \in SeqToSet(Actions(node.state)) : a \notin SeqToSet(node.children_actions)}

\* CustomPlayer.expand with the action random.choice picked
Expand(ns, n, action) == AddChild(ns, n, Result(ns[n].state, action), action)

\* --------------------------------------------------------- default policy
\* the terminal states the random playout of default_policy can stop in
RECURSIVE Playouts(_)
Playouts(s) ==
    IF TerminalTest(s) THEN {s}
    ELSE UNION {Playouts(t) : t \in Successors(s)}

\* default_policy with the two return values exchanged
SimRewardSwapped(end, player_id) == IF HasLiberties(end, player_id) THEN 1 ELSE -1

\* the value default_policy returns for the terminal state it stopped in
SimReward(end, player_id) == IF HasLiberties(end, player_id) THEN -1 ELSE 1

\* ---------------------------------------------------------------- backprop
\* backprop without "reward = -reward"
RECURSIVE BackpropSameSign(_, _, _)
BackpropSameSign(ns, n, r) ==
    IF n = None THEN ns
    ELSE BackpropSameSign([ns EXCEPT ![n].reward = @ + r, ![n].visits = @ + 1],
                          ns[n].parent, r)

\* backprop stopping below the root ("while node.parent is not None")
RECURSIVE BackpropBelowRoot(_, _, _)
BackpropBelowRoot(ns, n, r) ==
    IF ns[n].parent = None THEN ns
    ELSE BackpropBelowRoot([ns EXCEPT ![n].reward = @ + r, ![n].visits = @ + 1],
                           ns[n].parent, -r)

RECURSIVE BackpropLoop(_, _, _)
BackpropLoop(ns, n, r) ==
    IF n = None THEN ns
    ELSE BackpropLoop([ns EXCEPT ![n].reward = @ + r, ![n].visits = @ + 1],
                      ns[n].parent, -r)

\* ------------------------------------------------------------------- Init
Init ==
    /\ state \in GameStates
    /\ pc = "call"
    /\ queue = <<>>
    /\ nodes = <<>>
    /\ leaf_node = None
    /\ reward = 0
    /\ iters = 0
    /\ exception = "none"
    /\ sim_end = state
    /\ passes = <<>>
    /\ scored = {}
    /\ depth = 0
    /\ best_move = None

\* ---------------------------------------------------------------- actions
\* get_action, ply_count < 2: publish a random legal action
GetActionOpening ==
    /\ pc = "call"
    /\ state.ply_count < 2
    /\ \E a \in SeqToSet(Actions(state)) : queue' = Append(queue, a)
    /\ pc' = "returned"
    /\ UNCHANGED <<state, nodes, leaf_node, reward, iters, exception,
                   sim_end, passes, scored, depth, best_move>>

\* get_action, ply_count >= 2, and MCTS_search up to the head of its loop:
\* a terminal root returns random.choice(state.actions()), which raises
\* IndexError on an empty list
MCTSBegin ==
    /\ pc = "call"
    /\ state.ply_count >= 2
    /\ nodes' = <<UTCNode(state, None)>>
    /\ passes' = <<0>>
    /\ IF TerminalTest(state)
       THEN IF Actions(state) = <<>>
            THEN /\ exception' = "IndexError"
                 /\ pc' = "raised"
                 /\ queue' = queue
            ELSE /\ \E a \in SeqToSet(Actions(state)) : queue' = Append(queue, a)
                 /\ pc' = "returned"
                 /\ exception' = exception
       ELSE /\ pc' = "loop"
            /\ UNCHANGED <<queue, exception>>
    /\ UNCHANGED <<state, leaf_node, reward, iters, sim_end, scored,
                   depth, best_move>>

\* the loop test holds (the deadline has not passed): tree_policy
TreePolicy ==
    /\ pc = "loop"
    /\ iters < MaxIter
    /\ LET n == Descend(nodes, 1)
           path == DescentPath(nodes, 1)
           bump(ps, extra) == [i \in 1..(Len(ps) + extra) |->
                                 IF i > Len(ps) THEN 1
                                 ELSE IF i \in SeqToSet(path) THEN ps[i] + 1
                                 ELSE ps[i]]
       IN /\ scored' = {m \in SeqToSet(path) : m # n}
          /\ IF TerminalTest(nodes[n].state)
             THEN /\ leaf_node' = n
                  /\ nodes' = nodes
                  /\ passes' = bump(passes, 0)
             ELSE \E a \in Untried(nodes[n]) :
                  LET ns == Expand(nodes, n, a)
                  IN /\ nodes' = ns
                     /\ leaf_node' = ns[n].children[Len(ns[n].children)]
                     /\ passes' = bump(passes, 1)
    /\ pc' = "simulate"
    /\ UNCHANGED <<state, queue, reward, iters, exception, sim_end,
                   depth, best_move>>

\* default_policy(leaf_node.state)
DefaultPolicy ==
    /\ pc = "simulate"
    /\ LET player_id == Player(nodes[leaf_node].state)
       IN \E end \in Playouts(nodes[leaf_node].state) :
            /\ sim_end' = end
            /\ reward' = SimReward(end, player_id)
    /\ pc' = "backprop"
    /\ UNCHANGED <<state, queue, nodes, leaf_node, iters, exception,
                   passes, scored, depth, best_move>>

\* backprop(leaf_node, reward), and back to the loop test
Backprop ==
    /\ pc = "backprop"
    /\ nodes' = BackpropLoop(nodes, leaf_node, reward)
    /\ iters' = iters + 1
    /\ leaf_node' = None
    /\ reward' = 0
    /\ sim_end' = state
    /\ scored' = {}
    /\ pc' = "loop"
    /\ UNCHANGED <<state, queue, exception, passes, depth, best_move>>

\* the loop test fails (the deadline has passed): MCTS_search returns the
\* action of best_child(root_node), max() raising ValueError when the root
\* has no child, and get_action publishes it
MCTSReturn ==
    /\ pc = "loop"
    /\ IF nodes[1].children = <<>>
       THEN /\ exception' = "ValueError"
            /\ pc' = "raised"
            /\ UNCHANGED <<queue, scored>>
       ELSE /\ queue' = Append(queue,
                   nodes[1].children_actions[Index(nodes[1].children,
                                                   BestChild(nodes, 1))])
            /\ scored' = {1}
            /\ pc' = "returned"
            /\ exception' = exception
    /\ UNCHANGED <<state, nodes, leaf_node, reward, iters, sim_end, passes,
                   depth, best_move>>

Next ==
    \/ GetActionOpening
    \/ MCTSBegin
    \/ TreePolicy
    \/ DefaultPolicy
    \/ Backprop
    \/ MCTSReturn

Spec == Init /\ [][Next]_vars

\* ------------------------------------------------------- alpha-beta search
Max(a, b) == IF a >= b THEN a ELSE b
Min(a, b) == IF a <= b THEN a ELSE b

\* CustomPlayer.score: the difference of the two players' liberties
Score(s, player_id) ==
    LET my_loc == s.locs[player_id + 1]
        opp_loc == s.locs[(1 - player_id) + 1]
    IN Cardinality(Liberties(s, my_loc)) - Cardinality(Liberties(s, opp_loc))

\* min_value and max_value; MinLoop and MaxLoop are their for loops from
\* the i-th action on, with the running v, alpha and beta
RECURSIVE MinValue(_, _, _, _, _), MaxValue(_, _, _, _, _),
          MinLoop(_, _, _, _, _, _, _), MaxLoop(_, _, _, _, _, _, _)

MinLoop(s, player_id, d, alpha, beta, v, i) ==
    IF i > Len(Actions(s)) THEN v
    ELSE LET v2 == Min(v, MaxValue(Result(s, Actions(s)[i]), player_id,
                                   d - 1, alpha, beta))
         IN IF v2 <= alpha THEN v2
            ELSE MinLoop(s, player_id, d, alpha, Min(beta, v2), v2, i + 1)

MinValue(s, player_id, d, alpha, beta) ==
    IF TerminalTest(s) THEN Utility(s, player_id)
    ELSE IF d = 0 THEN Score(s, player_id)
    ELSE MinLoop(s, player_id, d, alpha, beta, Inf, 1)

MaxLoop(s, player_id, d, alpha, beta, v, i) ==
    IF i > Len(Actions(s)) THEN v
    ELSE LET v2 == Max(v, MinValue(Result(s, Actions(s)[i]), player_id,
                                   d - 1, alpha, beta))
         IN IF v2 >= beta THEN v2
            ELSE MaxLoop(s, player_id, d, Max(alpha, v2), beta, v2, i + 1)

MaxValue(s, player_id, d, alpha, beta) ==
    IF TerminalTest(s) THEN Utility(s, player_id)
    ELSE IF d = 0 THEN Score(s, player_id)
    ELSE MaxLoop(s, player_id, d, alpha, beta, -Inf, 1)

\* the for loop of alpha_beta_search from the i-th action on
RECURSIVE SearchLoop(_, _, _, _, _, _, _)
SearchLoop(s, player_id, d, alpha, best_score, move, i) ==
    IF i > Len(Actions(s)) THEN move
    ELSE LET a == Actions(s)[i]
             v == MinValue(Result(s, a), player_id, d - 1, alpha, Inf)
         IN IF v >= best_score
            THEN SearchLoop(s, player_id, d, Max(alpha, v), v, a, i + 1)
            ELSE SearchLoop(s, player_id, d, Max(alpha, v), best_score,
                            move, i + 1)

\* CustomPlayer.alpha_beta_search; self.player_id is the player to move
AlphaBetaSearch(s, d) == SearchLoop(s, Player(s), d, -Inf, -Inf, None, 1)

InitAB ==
    /\ state \in {s \in GameStates : ~TerminalTest(s)}
    /\ depth \in 1..DepthLimit
    /\ pc = "ab_call"
    /\ best_move = None
    /\ queue = <<>>
    /\ nodes = <<>>
    /\ leaf_node = None
    /\ reward = 0
    /\ iters = 0
    /\ exception = "none"
    /\ sim_end = state
    /\ passes = <<>>
    /\ scored = {}

\* one call of alpha_beta_search(state, depth)
AlphaBeta ==
    /\ pc = "ab_call"
    /\ best_move' = AlphaBetaSearch(state, depth)
    /\ pc' = "ab_returned"
    /\ UNCHANGED <<state, queue, nodes, leaf_node, reward, iters, exception,
                   sim_end, passes, scored, depth>>

NextAB == AlphaBeta

SpecAB == InitAB /\ [][NextAB]_vars

\* ------------------------------------------------- unpruned minimax (C1)
\* depth-limited minimax without pruning: utility at a terminal state, the
\* liberty difference at depth 0
RECURSIVE Minimax(_, _, _, _)
Minimax(s, player_id, d, maximizing) ==
    IF TerminalTest(s) THEN Utility(s, player_id)
    ELSE IF d = 0 THEN Score(s, player_id)
    ELSE LET vals == {Minimax(t, player_id, d - 1, ~maximizing) :
                        t \in Successors(s)}
         IN IF maximizing
            THEN CHOOSE v \in vals : \A w \in vals : w <= v
            ELSE CHOOSE v \in vals : \A w \in vals : v <= w

\* the unpruned value of playing action a in s with depth limit d
MoveValue(s, a, d) == Minimax(Result(s, a), Player(s), d - 1, FALSE)

\* C1: for every non-terminal state and depth limit >= 1, alpha_beta_search
\* returns a legal action whose unpruned depth-limited minimax value is the
\* maximum over all legal actions.
C1_AlphaBetaOptimal ==
    pc = "ab_returned" =>
        /\ best_move \in SeqToSet(Actions(state))
        /\ \A a \in SeqToSet(Actions(state)) :
              MoveValue(state, a, depth) <= MoveValue(state, best_move, depth)

\* -------------------------------------------------- helpers of the claims
Last(q) == q[Len(q)]

NoDuplicates(q) == \A i, j \in 1..Len(q) : q[i] = q[j] => i = j

\* the nodes from n up to the root, following the parent links
RECURSIVE ChainUp(_, _)
ChainUp(ns, n) == IF n = None THEN <<>> ELSE <<n>> \o ChainUp(ns, ns[n].parent)

\* the sum of c.visits - 1 over the children cs
RECURSIVE ChildPasses(_, _)
ChildPasses(ns, cs) ==
    IF cs = <<>> THEN 0
    ELSE (ns[Head(cs)].visits - 1) + ChildPasses(ns, Tail(cs))

Abs(x) == IF x < 0 THEN -x ELSE x

InSearch == pc \in {"loop", "simulate", "backprop"}

\* C2: when at least one iteration completed, MCTS_search returns a legal
\* action of the root state: the entry of children_actions at the index of
\* the root child best_child chose, which leads to that child's state.
C2_ReturnsLegalAction ==
    (pc = "returned" /\ iters >= 1) =>
        /\ Last(queue) \in SeqToSet(Actions(state))
        /\ \E i \in 1..Len(nodes[1].children) :
              /\ nodes[1].children[i] = BestChild(nodes, 1)
              /\ nodes[1].children_actions[i] = Last(queue)
              /\ nodes[nodes[1].children[i]].state = Result(state, Last(queue))

C2_Witness ==
    /\ pc = "returned"
    /\ iters >= 2
    /\ Len(nodes[1].children) >= 2
    /\ BestChild(nodes, 1) # nodes[1].children[1]

\* C3: a non-terminal root whose deadline passes before any iteration
\* completes still gets a legal action returned, without an error.
C3_ZeroBudgetReturns ==
    (/\ state.ply_count >= 2
     /\ ~TerminalTest(state)
     /\ iters = 0
     /\ pc \in {"returned", "raised"}) =>
        /\ pc = "returned"
        /\ exception = "none"
        /\ queue # <<>>
        /\ Last(queue) \in SeqToSet(Actions(state))

\* C4: a terminal root makes MCTS_search return normally with one of the
\* root's legal actions, without entering the loop and without creating a
\* child, for every terminal state, those without a legal action included.
C4_TerminalRootReturns ==
    (/\ state.ply_count >= 2
     /\ TerminalTest(state)
     /\ pc # "call") =>
        /\ pc = "returned"
        /\ exception = "none"
        /\ queue # <<>>
        /\ Last(queue) \in SeqToSet(Actions(state))
        /\ Len(nodes) = 1
        /\ iters = 0

\* C5: while the search of a get_action call with ply_count >= 2 is under
\* way (here: once one iteration has completed), the queue already holds a
\* legal action, so an interrupted agent has published an answer.
C5_AnytimePublished ==
    (state.ply_count >= 2 /\ InSearch /\ iters >= 1) =>
        /\ queue # <<>>
        /\ Last(queue) \in SeqToSet(Actions(state))

\* C6: backprop changes exactly the nodes on the parent chain from the leaf
\* to the root: each gets visits + 1, the node k steps above the leaf gets
\* reward + (-1)^k * r with r in {1, -1}; every other node is unchanged.
C6_BackpropFrame ==
    [][(pc = "backprop" /\ pc' = "loop") =>
         LET chain == ChainUp(nodes, leaf_node)
         IN /\ reward \in {1, -1}
            /\ chain[Len(chain)] = 1
            /\ Len(nodes') = Len(nodes)
            /\ \A n \in 1..Len(nodes) :
                 IF \E k \in 1..Len(chain) : chain[k] = n
                 THEN LET k == CHOOSE k \in 1..Len(chain) : chain[k] = n
                      IN nodes'[n] =
                           [nodes[n] EXCEPT
                              !.visits = @ + 1,
                              !.reward = @ + (IF (k - 1) % 2 = 0
                                              THEN reward ELSE -reward)]
                 ELSE nodes'[n] = nodes[n]]_vars

C6_Witness ==
    /\ pc = "loop"
    /\ \E n \in 1..Len(nodes) :
         /\ nodes[n].parent \notin {None, 1}
         /\ nodes[nodes[n].parent].parent = 1
         /\ nodes[n].visits = 2
         /\ nodes[n].reward = 1
         /\ nodes[nodes[n].parent].reward = 0
         /\ Len(nodes) >= 4

\* C7: in every node children_actions has no duplicate and only legal
\* actions of the node's state, len(children) = len(children_actions) <=
\* len(state.actions()), is_expanded() holds exactly when the two counts
\* are equal; expand is applied only to a non-terminal, not fully expanded
\* node and adds exactly one child, for an action not explored before.
C7_TreeShape ==
    \A n \in 1..Len(nodes) :
        /\ NoDuplicates(nodes[n].children_actions)
        /\ SeqToSet(nodes[n].children_actions) \subseteq SeqToSet(Actions(nodes[n].state))
        /\ Len(nodes[n].children) = Len(nodes[n].children_actions)
        /\ Len(nodes[n].children) <= Len(Actions(nodes[n].state))
        /\ IsExpanded(nodes[n]) <=> Len(nodes[n].children) = Len(Actions(nodes[n].state))
        /\ \A i \in 1..Len(nodes[n].children) :
              /\ nodes[nodes[n].children[i]].parent = n
              /\ nodes[nodes[n].children[i]].state =
                    Result(nodes[n].state, nodes[n].children_actions[i])

C7_ExpandStep ==
    (pc = "loop" /\ pc' = "simulate") =>
        \/ nodes' = nodes
        \/ /\ Len(nodes') = Len(nodes) + 1
           /\ \E n \in 1..Len(nodes) :
                /\ ~TerminalTest(nodes[n].state)
                /\ ~IsExpanded(nodes[n])
                /\ Len(nodes'[n].children_actions) = Len(nodes[n].children_actions) + 1
                /\ Last(nodes'[n].children_actions) \notin SeqToSet(nodes[n].children_actions)
                /\ nodes'[n].children = Append(nodes[n].children, Len(nodes'))
                /\ leaf_node' = Len(nodes')
                /\ \A m \in 1..Len(nodes) : m # n => nodes'[m] = nodes[m]

C7_ExpansionInvariant == []C7_TreeShape /\ [][C7_ExpandStep]_vars

C7_Witness ==
    /\ pc = "simulate"
    /\ leaf_node = Len(nodes)
    /\ \E n \in 2..Len(nodes) :
         /\ IsExpanded(nodes[n])
         /\ Len(nodes[n].children) >= 2
    /\ \E n \in 1..Len(nodes) :
         /\ ~IsExpanded(nodes[n])
         /\ Len(nodes[n].children) >= 1

\* C8 (as stated): default_policy from a leaf whose player to move is p
\* stops in a terminal state T and returns -1 if p has liberties in T and
\* +1 otherwise, always +1 or -1, and +1 when the leaf is itself terminal.
C8_SimulationReward ==
    pc = "backprop" =>
        LET leaf == nodes[leaf_node].state
            p == Player(leaf)
        IN /\ TerminalTest(sim_end)
           /\ sim_end.board \subseteq leaf.board
           /\ sim_end.ply_count - leaf.ply_count =
                 Cardinality(leaf.board) - Cardinality(sim_end.board)
           /\ reward \in {1, -1}
           /\ reward = -1 <=> HasLiberties(sim_end, p)
           /\ TerminalTest(leaf) => reward = 1

\* C8 (amended): as above, but a leaf that is itself terminal is its own
\* end state, so the value is +1 only if p has no liberties there and -1
\* if p still has some (the player without a move is the opponent).
C8_SimulationRewardAmended ==
    pc = "backprop" =>
        LET leaf == nodes[leaf_node].state
            p == Player(leaf)
        IN /\ TerminalTest(sim_end)
           /\ sim_end.board \subseteq leaf.board
           /\ sim_end.ply_count - leaf.ply_count =
                 Cardinality(leaf.board) - Cardinality(sim_end.board)
           /\ reward \in {1, -1}
           /\ reward = -1 <=> HasLiberties(sim_end, p)
           /\ TerminalTest(leaf) =>
                 /\ sim_end = leaf
                 /\ reward = (IF Actions(leaf) = <<>> THEN 1 ELSE -1)

C8_Witness ==
    /\ pc = "backprop"
    /\ TerminalTest(nodes[leaf_node].state)
    /\ Actions(nodes[leaf_node].state) # <<>>
    /\ reward = -1

\* C9: every node has visits >= 1, and whenever best_child scores the
\* children of a node, the node and each scored child have visits >= 1, so
\* reward / visits and sqrt(log(parent.visits) / visits) are defined.
C9_VisitsPositive ==
    /\ \A n \in 1..Len(nodes) : nodes[n].visits >= 1
    /\ \A n \in scored :
         /\ nodes[n].visits >= 1
         /\ nodes[n].children # <<>>
         /\ \A i \in 1..Len(nodes[n].children) :
               /\ nodes[nodes[n].children[i]].visits >= 1
               /\ nodes[nodes[n].children[i]].parent = n

C9_Witness ==
    /\ pc = "simulate"
    /\ Cardinality(scored) >= 2
    /\ \E n \in scored : Len(nodes[n].children) >= 2

\* C10: after k completed iterations the root has visits = 1 + k; for each
\* node, visits - 1 is the number of completed iterations whose path held
\* it; a non-root non-terminal node has visits = 2 + the sum of
\* (c.visits - 1) over its children, the root 1 + that sum; and
\* |reward| <= visits - 1 for every node.
C10_VisitAccounting ==
    (nodes # <<>> /\ pc \in {"loop", "returned", "raised"}) =>
        /\ nodes[1].visits = 1 + iters
        /\ nodes[1].visits = 1 + ChildPasses(nodes, nodes[1].children)
        /\ \A n \in 1..Len(nodes) :
             /\ nodes[n].visits - 1 = passes[n]
             /\ Abs(nodes[n].reward) <= nodes[n].visits - 1
             /\ (n # 1 /\ ~TerminalTest(nodes[n].state)) =>
                   nodes[n].visits = 2 + ChildPasses(nodes, nodes[n].children)

C10_Witness ==
    /\ pc = "loop"
    /\ iters >= 4
    /\ \E n \in 2..Len(nodes) :
         /\ ~TerminalTest(nodes[n].state)
         /\ Len(nodes[n].children) >= 2
         /\ nodes[n].visits >= 4

====
